---- MODULE Spec2Model ----
(***************************************************************************)
(* Model of stm32/pygame/Core/Src/main.c: the byte-received interrupt      *)
(* handler (HAL_UART_RxCpltCallback), the ADC conversion-complete handler  *)
(* (HAL_ADC_ConvCpltCallback) and the polling loop of main().  Interrupt   *)
(* handlers run to completion between two steps of the main loop; the main *)
(* loop is cut into steps at every access to a variable an interrupt       *)
(* handler writes.  Bytes are their ASCII codes.                           *)
(***************************************************************************)
EXTENDS Integers, Sequences, FiniteSets, TLC

\* ------------------------------------------------------------- constants
RxSize == 100
StatusSize == 50
LF == 10
CR == 13
NUL == 0
ChF == 70
ChE == 69
ChS == 83
ChB == 66
Colon == 58
DirN == 78
DirR == 82
DirL == 76
DirU == 85
DirD == 68
Deadzone0 == 50
MidX0 == 3100
MidY0 == 3100
BuzzDuty == 50
PinReset == 0
PinSet == 1

\* ---------------------------------------------------------------- bounds
\* Short lines the host sends in one run.
MaxChunks == 2
\* ADC conversions completing in one run.
MaxAdc == 2

\* Bytes written past status_msg by the longest string rx_buffer can hold
\* (RxSize - 3 payload bytes and the terminator).
SpillSize == (RxSize - 2) - StatusSize

Rep(n, b) == [i \in 1..n |-> b]

\* Short lines: "F:42\n" "F:-307\n" "E:-5\n" "S:Hi\n" "Z:1\n" "\n"
ShortChunks ==
  { <<70, 58, 52, 50, 10>>,
    <<70, 58, 45, 51, 48, 55, 10>>,
    <<69, 58, 45, 53, 10>>,
    <<83, 58, 72, 105, 10>>,
    <<90, 58, 49, 10>>,
    <<10>> }

\* Long chunks: 100 bytes without '\n'; "S:" and 97 bytes without '\n';
\* "S:" with a payload that fills status_msg exactly (48 bytes and '\n');
\* "S:" with a payload one byte too long (49 bytes and '\n').
LongChunks ==
  { Rep(RxSize, 120),
    <<83, 58>> \o Rep(RxSize - 3, 120),
    <<83, 58>> \o Rep(StatusSize - 2, 120) \o <<10>>,
    <<83, 58>> \o Rep(StatusSize - 1, 120) \o <<10>> }

\* Samples (x, y, button pin): centre released, right and up pressed,
\* down released, centre pressed.
Samples ==
  { <<3100, 3100, 1>>, <<3151, 3151, 0>>, <<3100, 3049, 1>>, <<3100, 3100, 0>> }

VARIABLES
  rx_buffer, echo_buffer, rx_index, byte,
  command_ready, command_length, led_blink_flag, buzz_flag, joystick_flag,
  x, y, readValue, state, deadzone, mid_x, mid_y,
  food_count, energy_level, status_msg, past_status,
  pc, tx_len, tx_i, tx_cur, dir, ds_i,
  buzzer, led, disp_food, disp_energy, disp_status,
  tx_link, lines, rx_log, empty_at, overrun, wr_max, pass, owed,
  wire, pin, budget

hw == <<rx_buffer, echo_buffer, rx_index, byte, command_ready, command_length,
        led_blink_flag, buzz_flag>>
app == <<food_count, energy_level, status_msg, past_status>>
calib == <<deadzone, mid_x, mid_y>>
joy == <<x, y, state, dir>>
adc == <<readValue, joystick_flag, pin>>
disp == <<disp_food, disp_energy, disp_status, ds_i>>
txv == <<tx_len, tx_i, tx_cur, tx_link>>
outs == <<buzzer, led>>
env == <<wire, budget>>
\* History: the lines completed so far, the bytes received so far, the places
\* in rx_log at which a byte found the cursor at 0 (with the lines completed
\* by then), the most bytes one strcpy wrote past the end of status_msg, and
\* the highest index of rx_buffer the receive handler has written.
hist == <<lines, rx_log, empty_at, overrun, wr_max>>
\* History of the pass of the main loop in progress: the length of tx_link
\* when the pass began, whether the pass entered the joystick block, and the
\* flags an interrupt raised from 0 while the pass was inside a blocking
\* transmit; and the services owed: "buzz" (or "led") from the completion
\* of a line that raises buzz_flag (or led_blink_flag) until the next alert
\* (or blink) begins.
track == <<pass, owed>>
vars == <<hw, app, calib, joy, adc, disp, txv, outs, env, pc, hist, track>>

\* ------------------------------------------------------------ C library
IsSpace(c) == c = 32 \/ (c >= 9 /\ c <= 13)
IsDigit(c) == c >= 48 /\ c <= 57

RECURSIVE SkipSpace(_, _)
SkipSpace(buf, i) == IF IsSpace(buf[i]) THEN SkipSpace(buf, i + 1) ELSE i

RECURSIVE Digits(_, _, _)
Digits(buf, i, acc) ==
  IF IsDigit(buf[i]) THEN Digits(buf, i + 1, acc * 10 + (buf[i] - 48)) ELSE acc

\* Faulty variant of Atoi: the text is read one byte too far into the buffer.
AtoiOffByOne(buf, start) ==
  LET i == SkipSpace(buf, start + 1)
  IN  IF buf[i] = 45 THEN 0 - Digits(buf, i + 1, 0)
      ELSE IF buf[i] = 43 THEN Digits(buf, i + 1, 0)
      ELSE Digits(buf, i, 0)

\* Faulty variant of Atoi: no sign is read, so the digits are never reached.
AtoiUnsigned(buf, start) == Digits(buf, SkipSpace(buf, start), 0)

\* atoi: white space, an optional sign, then digits up to the first other byte.
Atoi(buf, start) ==
  LET i == SkipSpace(buf, start)
  IN  IF buf[i] = 45 THEN 0 - Digits(buf, i + 1, 0)
      ELSE IF buf[i] = 43 THEN Digits(buf, i + 1, 0)
      ELSE Digits(buf, i, 0)

\* The C string at buf[start]: the bytes before the first NUL.
RECURSIVE CStr(_, _)
CStr(buf, i) == IF buf[i] = NUL THEN <<>> ELSE <<buf[i]>> \o CStr(buf, i + 1)

RECURSIVE ItoaNat(_)
ItoaNat(n) == IF n < 10 THEN <<48 + n>> ELSE ItoaNat(n \div 10) \o <<48 + (n % 10)>>

\* sprintf(buffer, "%d", n)
Itoa(n) == IF n < 0 THEN <<45>> \o ItoaNat(0 - n) ELSE ItoaNat(n)

\* ---------------------------------------------------------------- Init
\* The history of a pass that begins with n frames on the link.
PassStart(n) == [mark |-> n, joy |-> FALSE, during |-> {}]

Zero(n) == [i \in 0..(n - 1) |-> NUL]

\* char status_msg[50] = "Ready";
StatusInit ==
  [i \in 0..(StatusSize - 1) |->
     IF i < 5 THEN <<82, 101, 97, 100, 121>>[i + 1] ELSE NUL]

\* What the host and the joystick may do in one run: short lines only; one
\* long chunk and one short line, in either order; or one short line while
\* the joystick is sampled.
Budgets ==
  { [short |-> MaxChunks, long |-> 0, adc |-> 0],
    [short |-> 1, long |-> 1, adc |-> 0],
    [short |-> 1, long |-> 0, adc |-> MaxAdc] }

Init ==
  /\ rx_buffer = Zero(RxSize)
  /\ echo_buffer = Zero(RxSize)
  /\ rx_index = 0
  /\ byte = 0
  /\ command_ready = 0
  /\ command_length = 0
  /\ led_blink_flag = 0
  /\ buzz_flag = 0
  /\ joystick_flag = 0
  /\ x = 0
  /\ y = 0
  /\ readValue = <<0, 0>>
  /\ state = 0
  /\ deadzone = Deadzone0
  /\ mid_x = MidX0
  /\ mid_y = MidY0
  /\ food_count = 0
  /\ energy_level = 0
  /\ status_msg = StatusInit
  /\ past_status = Zero(SpillSize)
  /\ pc = "L177"
  /\ tx_len = 0
  /\ tx_i = 0
  /\ tx_cur = <<>>
  /\ dir = DirN
  /\ ds_i = 0
  /\ buzzer = 0
  /\ led = 0
  /\ disp_food = <<48>>
  /\ disp_energy = <<49, 48, 48>>
  /\ disp_status = <<82, 101, 97, 100, 121>>
  /\ tx_link = <<>>
  /\ lines = <<>>
  /\ rx_log = <<>>
  /\ empty_at = {}
  /\ overrun = 0
  /\ wr_max = 0
  /\ pass = PassStart(0)
  /\ owed = {}
  /\ wire = <<>>
  /\ pin = PinSet
  /\ budget \in Budgets

\* ---------------------------------------------------- the host (input)
HostSend ==
  /\ wire = <<>>
  /\ \/ /\ budget.short > 0
        /\ \E c \in ShortChunks :
             /\ wire' = c
             /\ budget' = [budget EXCEPT !.short = @ - 1]
     \/ /\ budget.long > 0
        /\ \E c \in LongChunks :
             /\ wire' = c
             /\ budget' = [budget EXCEPT !.long = @ - 1]
  /\ UNCHANGED <<hw, app, calib, joy, adc, disp, txv, outs, pc, hist, track>>

\* ------------------------------------------- HAL_UART_RxCpltCallback
\* Faulty variant of LineEnd: the line is cut one byte early.
LineEndEarly(bv, idx) == bv = LF \/ idx >= RxSize - 2

\* Faulty variant of LineEnd: the line is cut one byte late.
LineEndLate(bv, idx) == bv = LF \/ idx >= RxSize

\* if (byte == '\n' || rx_index >= sizeof(rx_buffer)-1), after rx_index++
LineEnd(bv, idx) == bv = LF \/ idx >= RxSize - 1

\* Faulty variant of Tag: || for && in the tests.
TagEitherByte(buf) ==
  IF buf[0] = ChF \/ buf[1] = Colon THEN "F"
  ELSE IF buf[0] = ChE \/ buf[1] = Colon THEN "E"
  ELSE IF buf[0] = ChS \/ buf[1] = Colon THEN "S"
  ELSE "none"

\* The tag tests of the if / else-if chain.
Tag(buf) ==
  IF buf[0] = ChF /\ buf[1] = Colon THEN "F"
  ELSE IF buf[0] = ChE /\ buf[1] = Colon THEN "E"
  ELSE IF buf[0] = ChS /\ buf[1] = Colon THEN "S"
  ELSE "none"

\* memcpy(echo_buffer, rx_buffer, rx_index)
Memcpy(dst, src, n) == [i \in DOMAIN dst |-> IF i < n THEN src[i] ELSE dst[i]]

\* What strcpy(status_msg, &rx_buffer[2]) writes: the string and its NUL.
StrcpyImage(buf) == CStr(buf, 2) \o <<NUL>>

\* The bytes of the image that land in status_msg itself.
StrcpyInside(old, img) ==
  [i \in 0..(StatusSize - 1) |-> IF i < Len(img) THEN img[i + 1] ELSE old[i]]

\* The bytes of the image that land past the end of status_msg.
StrcpyPast(old, img) ==
  [i \in 0..(SpillSize - 1) |->
     IF StatusSize + i < Len(img) THEN img[StatusSize + i + 1] ELSE old[i]]

\* A 16-bit little-endian object at byte offset off past status_msg, after
\* the first n bytes past the array were overwritten.
Clobber16(old, past, off, n) ==
  (IF off < n THEN past[off] ELSE old % 256)
  + 256 * (IF off + 1 < n THEN past[off + 1] ELSE old \div 256)

\* The objects an overrun of status_msg may land in, which the build decides:
\* "b" is char b[50], declared next and never read; "calib" is the other
\* initialised data mid_y, mid_x, deadzone.
Neighbours == {"b", "calib"}

\* Faulty variant of Store: the cursor is advanced before the store.
StorePreInc(buf, idx, bv) == [buf EXCEPT ![idx + 1] = bv]

\* rx_buffer[rx_index++] = byte: the store.
Store(buf, idx, bv) == [buf EXCEPT ![idx] = bv]

\* The blocking transmit the main loop is inside, if any: the call at line
\* 179 (the echo), or the one at line 236 or 243 (a frame).
InTx ==
  IF pc = "L179tx" THEN "echo"
  ELSE IF pc \in {"L236", "L243"} THEN "frame"
  ELSE "none"

\* The flags of fs that were 0, as entries of pass.during.
Raised(fs) == IF InTx = "none" THEN {} ELSE {<<f, InTx>> : f \in fs}

Max(a, b) == IF a > b THEN a ELSE b

RxCplt ==
  /\ wire # <<>>
  /\ LET bv   == Head(wire)
         buf1 == Store(rx_buffer, rx_index, bv)
         idx1 == rx_index + 1
         buf2 == [buf1 EXCEPT ![idx1] = NUL]
         tag  == Tag(buf2)
         img  == StrcpyImage(buf2)
         over == IF Len(img) > StatusSize THEN Len(img) - StatusSize ELSE 0
     IN
     /\ byte' = bv
     /\ wire' = Tail(wire)
     /\ rx_log' = Append(rx_log, bv)
     /\ empty_at' = IF rx_index = 0
                    THEN empty_at \cup {[pos |-> Len(rx_log), nlines |-> Len(lines)]}
                    ELSE empty_at
     /\ IF LineEnd(bv, idx1)
        THEN /\ led_blink_flag' = 1
             /\ rx_buffer' = buf2
             /\ wr_max' = Max(wr_max, idx1)
             /\ owed' = owed \cup {"led"}
                              \cup (IF tag \in {"F", "S"} THEN {"buzz"} ELSE {})
             /\ pass' = [pass EXCEPT !.during = @ \cup Raised(
                   (IF led_blink_flag = 0 THEN {"led"} ELSE {})
                   \cup (IF tag \in {"F", "S"} /\ buzz_flag = 0
                         THEN {"buzz"} ELSE {})
                   \cup (IF tag # "none" /\ command_ready = 0
                         THEN {"cmd"} ELSE {}))]
             /\ echo_buffer' = Memcpy(echo_buffer, buf2, idx1)
             /\ command_length' = idx1
             /\ lines' = Append(lines, [i \in 1..idx1 |-> buf2[i - 1]])
             /\ overrun' = IF tag = "S" /\ over > overrun THEN over ELSE overrun
             /\ food_count' = IF tag = "F" THEN Atoi(buf2, 2) ELSE food_count
             /\ energy_level' = IF tag = "E" THEN Atoi(buf2, 2) ELSE energy_level
             /\ command_ready' = IF tag = "none" THEN command_ready ELSE 1
             /\ buzz_flag' = IF tag \in {"F", "S"} THEN 1 ELSE buzz_flag
             /\ IF tag = "S"
                THEN /\ status_msg' = StrcpyInside(status_msg, img)
                     /\ past_status' = StrcpyPast(past_status, img)
                     /\ IF over > 0
                        THEN \E hit \in Neighbours :
                               IF hit = "calib"
                               THEN /\ mid_y' = Clobber16(mid_y, past_status', 0, over)
                                    /\ mid_x' = Clobber16(mid_x, past_status', 2, over)
                                    /\ deadzone' = Clobber16(deadzone, past_status', 4, over)
                               ELSE UNCHANGED calib
                        ELSE UNCHANGED calib
                ELSE UNCHANGED <<status_msg, past_status, calib>>
             /\ rx_index' = 0
        ELSE /\ rx_buffer' = buf1
             /\ rx_index' = idx1
             /\ wr_max' = Max(wr_max, rx_index)
             /\ UNCHANGED <<led_blink_flag, echo_buffer, command_length, lines,
                            overrun, app, command_ready, buzz_flag, calib,
                            track>>
  /\ UNCHANGED <<budget, joy, adc, disp, txv, outs, pc>>

\* ------------------------------------------- HAL_ADC_ConvCpltCallback
\* The DMA transfer has refreshed readValue; the button pin follows the
\* player's hand at the same instant.
AdcConvCplt ==
  /\ budget.adc > 0
  /\ \E s \in Samples :
       /\ readValue' = <<s[1], s[2]>>
       /\ pin' = s[3]
  /\ joystick_flag' = 1
  /\ pass' = [pass EXCEPT !.during =
                 @ \cup Raised(IF joystick_flag = 0 THEN {"joy"} ELSE {})]
  /\ budget' = [budget EXCEPT !.adc = @ - 1]
  /\ UNCHANGED <<hw, app, calib, joy, disp, txv, outs, pc, hist, owed, wire>>

\* -------------------------------------------------------- main(): while (1)
\* Faulty variant of L177: the flag is cleared as soon as it is seen.
L177ClearFirst ==
  /\ pc = "L177"
  /\ pc' = IF command_ready # 0 THEN "L179" ELSE "L197"
  /\ command_ready' = 0
  /\ UNCHANGED <<rx_buffer, echo_buffer, rx_index, byte, command_length,
                 led_blink_flag, buzz_flag, app, calib, joy, adc, disp, txv,
                 outs, env, hist, track>>

\* if (command_ready)
L177 ==
  /\ pc = "L177"
  /\ pc' = IF command_ready # 0 THEN "L179" ELSE "L197"
  /\ UNCHANGED <<hw, app, calib, joy, adc, disp, txv, outs, env, hist, track>>

\* HAL_UART_Transmit(&huart3, echo_buffer, command_length, 100): the call
\* takes the length by value.
L179 ==
  /\ pc = "L179"
  /\ tx_len' = command_length
  /\ tx_i' = 0
  /\ tx_cur' = <<>>
  /\ pc' = "L179tx"
  /\ UNCHANGED <<hw, app, calib, joy, adc, disp, tx_link, outs, env, hist, track>>

\* The next byte the blocking transmit puts on the link.
EchoByte(buf, i) == buf[i]

\* The blocking transmit sends echo_buffer[0 .. tx_len-1] one byte at a time.
L179tx ==
  /\ pc = "L179tx"
  /\ IF tx_i < tx_len
     THEN /\ tx_cur' = Append(tx_cur, EchoByte(echo_buffer, tx_i))
          /\ tx_i' = tx_i + 1
          /\ UNCHANGED <<tx_link, pc>>
     ELSE /\ tx_link' = Append(tx_link, [kind |-> "echo", bytes |-> tx_cur])
          /\ pc' = "L183"
          /\ UNCHANGED <<tx_cur, tx_i>>
  /\ UNCHANGED <<hw, app, calib, joy, adc, disp, tx_len, outs, env, hist, track>>

\* sprintf(buffer, "%d", food_count); ILI9341_Draw_Text(buffer, ...)
L183 ==
  /\ pc = "L183"
  /\ disp_food' = Itoa(food_count)
  /\ pc' = "L188"
  /\ UNCHANGED <<hw, app, calib, joy, adc, disp_energy, disp_status, ds_i,
                 txv, outs, env, hist, track>>

\* sprintf(buffer, "%d", energy_level); ILI9341_Draw_Text(buffer, ...); then
\* the status region is cleared (line 192).
L188 ==
  /\ pc = "L188"
  /\ disp_energy' = Itoa(energy_level)
  /\ disp_status' = <<>>
  /\ ds_i' = 0
  /\ pc' = "L193"
  /\ UNCHANGED <<hw, app, calib, joy, adc, disp_food, txv, outs, env, hist, track>>

\* The byte at status_msg + i, as a reader running through the string sees it.
StatusByte(i) ==
  IF i < StatusSize THEN status_msg[i] ELSE past_status[i - StatusSize]

\* ILI9341_Draw_Text(status_msg, ...) draws one character at a time up to
\* the NUL.
L193 ==
  /\ pc = "L193"
  /\ IF StatusByte(ds_i) # NUL
     THEN /\ disp_status' = Append(disp_status, StatusByte(ds_i))
          /\ ds_i' = ds_i + 1
          /\ UNCHANGED pc
     ELSE /\ pc' = "L194"
          /\ UNCHANGED <<disp_status, ds_i>>
  /\ UNCHANGED <<hw, app, calib, joy, adc, disp_food, disp_energy, txv, outs,
                 env, hist, track>>

\* command_ready = 0;
L194 ==
  /\ pc = "L194"
  /\ command_ready' = 0
  /\ pc' = "L197"
  /\ UNCHANGED <<rx_buffer, echo_buffer, rx_index, byte, command_length,
                 led_blink_flag, buzz_flag, app, calib, joy, adc, disp, txv,
                 outs, env, hist, track>>

\* if (buzz_flag) { Set_Buzzer_PWM(50); HAL_Delay(300);
L197 ==
  /\ pc = "L197"
  /\ IF buzz_flag # 0
     THEN buzzer' = BuzzDuty /\ pc' = "L200" /\ owed' = owed \ {"buzz"}
     ELSE UNCHANGED <<buzzer, owed>> /\ pc' = "L205"
  /\ UNCHANGED <<hw, app, calib, joy, adc, disp, txv, led, env, hist, pass>>

\* Set_Buzzer_PWM(0);
L200 ==
  /\ pc = "L200"
  /\ buzzer' = 0
  /\ pc' = "L202"
  /\ UNCHANGED <<hw, app, calib, joy, adc, disp, txv, led, env, hist, track>>

\* buzz_flag = 0;
L202 ==
  /\ pc = "L202"
  /\ buzz_flag' = 0
  /\ pc' = "L205"
  /\ UNCHANGED <<rx_buffer, echo_buffer, rx_index, byte, command_ready,
                 command_length, led_blink_flag, app, calib, joy, adc, disp,
                 txv, outs, env, hist, track>>

\* if (led_blink_flag) { HAL_GPIO_WritePin(..., GPIO_PIN_SET); HAL_Delay(300);
L205 ==
  /\ pc = "L205"
  /\ IF led_blink_flag # 0
     THEN led' = PinSet /\ pc' = "L207" /\ owed' = owed \ {"led"}
     ELSE UNCHANGED <<led, owed>> /\ pc' = "L211"
  /\ UNCHANGED <<hw, app, calib, joy, adc, disp, txv, buzzer, env, hist, pass>>

\* HAL_GPIO_WritePin(..., GPIO_PIN_RESET);
L207 ==
  /\ pc = "L207"
  /\ led' = PinReset
  /\ pc' = "L209"
  /\ UNCHANGED <<hw, app, calib, joy, adc, disp, txv, buzzer, env, hist, track>>

\* led_blink_flag = 0;
L209 ==
  /\ pc = "L209"
  /\ led_blink_flag' = 0
  /\ pc' = "L211"
  /\ UNCHANGED <<rx_buffer, echo_buffer, rx_index, byte, command_ready,
                 command_length, buzz_flag, app, calib, joy, adc, disp, txv,
                 outs, env, hist, track>>

\* if (joystick_flag)
L211 ==
  /\ pc = "L211"
  /\ pc' = IF joystick_flag # 0 THEN "L212" ELSE "L246"
  /\ pass' = [pass EXCEPT !.joy = joystick_flag # 0]
  /\ UNCHANGED <<hw, app, calib, joy, adc, disp, txv, outs, env, hist, owed>>

\* x = (uint16_t) readValue[0];
L212 ==
  /\ pc = "L212"
  /\ x' = readValue[1] % 65536
  /\ pc' = "L213"
  /\ UNCHANGED <<hw, app, calib, y, state, dir, adc, disp, txv, outs, env, hist, track>>

\* y = (uint16_t) readValue[1];
L213 ==
  /\ pc = "L213"
  /\ y' = readValue[2] % 65536
  /\ pc' = "L215"
  /\ UNCHANGED <<hw, app, calib, x, state, dir, adc, disp, txv, outs, env, hist, track>>

\* state = HAL_GPIO_ReadPin(GPIOC, GPIO_PIN_0); joystick_flag = 0;
L215 ==
  /\ pc = "L215"
  /\ state' = pin
  /\ joystick_flag' = 0
  /\ pc' = "L221"
  /\ UNCHANGED <<hw, app, calib, x, y, dir, readValue, pin, disp, txv, outs,
                 env, hist, track>>

\* Faulty variant of Classify: the vertical axis is tested first.
ClassifyVerticalFirst(sx, sy, cx, cy, dz) ==
  IF sy > cy + dz THEN DirU
  ELSE IF sy < cy - dz THEN DirD
  ELSE IF sx > cx + dz THEN DirR
  ELSE IF sx < cx - dz THEN DirL
  ELSE DirN

\* The if / else-if chain of lines 223-230, on operands promoted to int.
Classify(sx, sy, cx, cy, dz) ==
  IF sx > cx + dz THEN DirR
  ELSE IF sx < cx - dz THEN DirL
  ELSE IF sy > cy + dz THEN DirU
  ELSE IF sy < cy - dz THEN DirD
  ELSE DirN

\* char dir = 'N'; if (x > mid_x + deadzone) dir = 'R'; else if ...
L221 ==
  /\ pc = "L221"
  /\ dir' = Classify(x, y, mid_x, mid_y, deadzone)
  /\ pc' = "L233"
  /\ UNCHANGED <<hw, app, calib, x, y, state, adc, disp, txv, outs, env, hist, track>>

\* Faulty variant of L240: the button is tested only when no direction was
\* sent (an else-if).
L240ElseIf ==
  /\ pc = "L240"
  /\ pc' = IF state = PinReset /\ dir = DirN THEN "L243" ELSE "L246"
  /\ UNCHANGED <<hw, app, calib, joy, adc, disp, txv, outs, env, hist, track>>

\* Faulty variant of L243: the joystick block stands before the alert block
\* in the loop.
L243BeforeAlert ==
  /\ pc = "L243"
  /\ tx_link' = Append(tx_link, [kind |-> "button", bytes |-> <<ChB, CR, LF>>])
  /\ pc' = "L197"
  /\ UNCHANGED <<hw, app, calib, joy, adc, disp, tx_len, tx_i, tx_cur, outs,
                 env, hist, track>>

\* if (dir != 'N')
L233 ==
  /\ pc = "L233"
  /\ pc' = IF dir # DirN THEN "L236" ELSE "L240"
  /\ UNCHANGED <<hw, app, calib, joy, adc, disp, txv, outs, env, hist, track>>

\* char msg[3] = {dir, '\r', '\n'}; HAL_UART_Transmit(&huart3, msg, 3,
\* HAL_MAX_DELAY): the step is the return of the blocking call.
L236 ==
  /\ pc = "L236"
  /\ tx_link' = Append(tx_link, [kind |-> "dir", bytes |-> <<dir, CR, LF>>])
  /\ pc' = "L240"
  /\ UNCHANGED <<hw, app, calib, joy, adc, disp, tx_len, tx_i, tx_cur, outs,
                 env, hist, track>>

\* if (state == GPIO_PIN_RESET)
L240 ==
  /\ pc = "L240"
  /\ pc' = IF state = PinReset THEN "L243" ELSE "L246"
  /\ UNCHANGED <<hw, app, calib, joy, adc, disp, txv, outs, env, hist, track>>

\* char msg[3] = {'B', '\r', '\n'}; HAL_UART_Transmit(&huart3, msg, 3,
\* HAL_MAX_DELAY): the step is the return of the blocking call.
L243 ==
  /\ pc = "L243"
  /\ tx_link' = Append(tx_link, [kind |-> "button", bytes |-> <<ChB, CR, LF>>])
  /\ pc' = "L246"
  /\ UNCHANGED <<hw, app, calib, joy, adc, disp, tx_len, tx_i, tx_cur, outs,
                 env, hist, track>>

\* HAL_Delay(200); the pass ends and the next one begins.
L246 ==
  /\ pc = "L246"
  /\ pc' = "L177"
  /\ pass' = PassStart(Len(tx_link))
  /\ UNCHANGED <<hw, app, calib, joy, adc, disp, txv, outs, env, hist, owed>>

Main ==
  \/ L177 \/ L179 \/ L179tx \/ L183 \/ L188 \/ L193 \/ L194
  \/ L197 \/ L200 \/ L202 \/ L205 \/ L207 \/ L209
  \/ L211 \/ L212 \/ L213 \/ L215 \/ L221 \/ L233 \/ L236 \/ L240 \/ L243
  \/ L246

Next == HostSend \/ RxCplt \/ AdcConvCplt \/ Main

Spec == Init /\ [][Next]_vars

\* The main loop always takes its next step, and a byte on the wire is
\* delivered; the host and the joystick are free to stay silent.
FairSpec == Spec /\ WF_vars(Main) /\ WF_vars(RxCplt)

\* ================================================================ claims
\* This step of the receive handler completed a line.
Completed == Len(lines') = Len(lines) + 1
\* The line the step completed.
NewLine == lines'[Len(lines')]
HasTag(l, t) == Len(l) >= 2 /\ l[1] = t /\ l[2] = Colon
Recognized(l) == HasTag(l, ChF) \/ HasTag(l, ChE) \/ HasTag(l, ChS)
EndsWithLF(l) == Len(l) >= 1 /\ l[Len(l)] = LF
\* The payload of a tagged line: the bytes between the ':' and the '\n'.
Payload(l) == SubSeq(l, 3, Len(l) - 1)
\* The string a reader of status_msg sees.
StatusText(sm, ps) ==
  CStr([i \in 0..(StatusSize + SpillSize - 1) |->
          IF i < StatusSize THEN sm[i] ELSE ps[i - StatusSize]], 0)
Echoes == {tx_link[i].bytes : i \in {j \in 1..Len(tx_link) : tx_link[j].kind = "echo"}}
LineSet == {lines[k] : k \in 1..Len(lines)}

\* C1: every completed line, whatever its tag, is eventually echoed on the
\* outbound link by the main loop.
C1_EveryLineEchoed ==
  \A k \in 1..MaxChunks :
    (Len(lines) >= k) ~> (Len(lines) >= k /\ lines[k] \in Echoes)

\* C2: every echo the main loop has transmitted equals, bytes and length, one
\* completed inbound line.
C2_EchoIsOneLine == \A e \in Echoes : e \in LineSet

\* C3: completing "S:<text>\n" sets status_text to exactly <text>, without
\* the terminator byte, and sets buzz_flag.
C3_StatusIsPayload ==
  [][(Completed /\ HasTag(NewLine, ChS) /\ EndsWithLF(NewLine))
       => (StatusText(status_msg', past_status') = Payload(NewLine)
           /\ buzz_flag' = 1)]_vars

IsDecimal(p) ==
  LET d == IF Len(p) >= 1 /\ p[1] = 45 THEN Tail(p) ELSE p
  IN  Len(d) >= 1 /\ \A j \in 1..Len(d) : d[j] >= 48 /\ d[j] <= 57

RECURSIVE Pow10(_)
Pow10(n) == IF n = 0 THEN 1 ELSE 10 * Pow10(n - 1)

RECURSIVE PlaceSum(_, _)
PlaceSum(d, j) ==
  IF j > Len(d) THEN 0 ELSE (d[j] - 48) * Pow10(Len(d) - j) + PlaceSum(d, j + 1)

\* The number a signed decimal text denotes, digit by place value.
DecVal(p) == IF p[1] = 45 THEN 0 - PlaceSum(Tail(p), 1) ELSE PlaceSum(p, 1)

\* C5: completing "F:<n>\n", <n> signed decimal text, sets food_count to n,
\* sets command_ready and sets buzz_flag.
C5_FoodLine ==
  [][(Completed /\ HasTag(NewLine, ChF) /\ EndsWithLF(NewLine)
        /\ IsDecimal(Payload(NewLine)))
       => (food_count' = DecVal(Payload(NewLine))
           /\ command_ready' = 1
           /\ buzz_flag' = 1)]_vars

C5_Witness ==
  /\ <<70, 58, 45, 51, 48, 55, 10>> \in LineSet
  /\ food_count = 0 - 307
  /\ command_ready = 1
  /\ buzz_flag = 1

\* C6: completing "E:<n>\n" sets energy_level to n and leaves buzz_flag,
\* food_count and status_msg as they were.
C6_EnergyLine ==
  [][(Completed /\ HasTag(NewLine, ChE))
       => (/\ (EndsWithLF(NewLine) /\ IsDecimal(Payload(NewLine)))
                => energy_level' = DecVal(Payload(NewLine))
           /\ buzz_flag' = buzz_flag
           /\ food_count' = food_count
           /\ status_msg' = status_msg
           /\ past_status' = past_status)]_vars

C6_Witness ==
  /\ Len(lines) = 2
  /\ lines[1] = <<70, 58, 52, 50, 10>>
  /\ lines[2] = <<69, 58, 45, 53, 10>>
  /\ energy_level = 0 - 5
  /\ food_count = 42
  /\ buzz_flag = 0

\* C7: completing a line whose first two bytes are none of "F:", "E:", "S:"
\* changes none of food_count, energy_level, status_msg, does not set
\* buzz_flag, and leaves the main loop where it was.
C7_UnknownTagNoEffect ==
  [][(Completed /\ ~Recognized(NewLine))
       => (/\ food_count' = food_count
           /\ energy_level' = energy_level
           /\ status_msg' = status_msg
           /\ past_status' = past_status
           /\ buzz_flag' = buzz_flag
           /\ pc' = pc)]_vars

C7_Witness ==
  /\ Len(lines) = 2
  /\ lines[1] = <<69, 58, 45, 53, 10>>
  /\ lines[2] = <<90, 58, 49, 10>>
  /\ energy_level = 0 - 5
  /\ food_count = 0
  /\ StatusText(status_msg, past_status) = <<82, 101, 97, 100, 121>>
  /\ buzz_flag = 0

\* This step delivered a byte to the receive handler.
Fed == Len(rx_log') = Len(rx_log) + 1
NoLF(run) == \A j \in 1..Len(run) : run[j] # LF

\* C8: from an empty framer, after fewer than 99 bytes none of which is '\n',
\* no line has been produced (command_ready, echo_buffer and command_length
\* are not written by the handler) and rx_index is the number of bytes fed.
C8_NoLineBefore99 ==
  [][Fed =>
       \A s \in empty_at' :
         LET run == SubSeq(rx_log', s.pos + 1, Len(rx_log'))
         IN  (Len(run) < RxSize - 1 /\ NoLF(run))
               => (/\ rx_index' = Len(run)
                   /\ lines' = lines
                   /\ Len(lines') = s.nlines
                   /\ command_ready' = command_ready
                   /\ echo_buffer' = echo_buffer
                   /\ command_length' = command_length)]_vars

C8_Witness ==
  /\ rx_index = RxSize - 2
  /\ Len(rx_log) = 5 + (RxSize - 2)
  /\ Len(lines) = 1
  /\ NoLF(SubSeq(rx_log, 6, Len(rx_log)))

\* C9: from an empty framer, 100 bytes none of which is '\n' produce exactly
\* one line, of length 99, at the 99th byte, which resets the cursor to 0;
\* the 100th byte is accepted at the start of the buffer.
C9_ForcedTruncation ==
  \A s \in empty_at :
    LET run == SubSeq(rx_log, s.pos + 1, Len(rx_log))
    IN  (Len(run) \in {RxSize - 1, RxSize} /\ NoLF(run))
          => (/\ Len(lines) = s.nlines + 1
              /\ lines[Len(lines)] = SubSeq(run, 1, RxSize - 1)
              /\ command_length = RxSize - 1
              /\ \A i \in 0..(RxSize - 2) : echo_buffer[i] = run[i + 1]
              /\ rx_index = Len(run) - (RxSize - 1)
              /\ Len(run) = RxSize => rx_buffer[0] = run[RxSize])

C9_Witness ==
  /\ Len(rx_log) = RxSize
  /\ NoLF(rx_log)
  /\ Len(lines) = 1
  /\ Len(lines[1]) = RxSize - 1
  /\ rx_index = 1

\* ------------------------------------------- the classifier on its own
\* Readings around the thresholds of both axes, and the ends of the range.
Readings == {0, 3049, 3050, 3051, 3100, 3149, 3150, 3151, 3200, 4095}

\* The main loop has just read a sample (lines 212-216) and is about to
\* classify it.
InitClassify ==
  /\ rx_buffer = Zero(RxSize)
  /\ echo_buffer = Zero(RxSize)
  /\ rx_index = 0
  /\ byte = 0
  /\ command_ready = 0
  /\ command_length = 0
  /\ led_blink_flag = 0
  /\ buzz_flag = 0
  /\ joystick_flag = 0
  /\ x \in Readings
  /\ y \in Readings
  /\ readValue = <<x, y>>
  /\ state = PinSet
  /\ deadzone = Deadzone0
  /\ mid_x = MidX0
  /\ mid_y = MidY0
  /\ food_count = 0
  /\ energy_level = 0
  /\ status_msg = StatusInit
  /\ past_status = Zero(SpillSize)
  /\ pc = "L221"
  /\ tx_len = 0
  /\ tx_i = 0
  /\ tx_cur = <<>>
  /\ dir = DirN
  /\ ds_i = 0
  /\ buzzer = 0
  /\ led = 0
  /\ disp_food = <<48>>
  /\ disp_energy = <<49, 48, 48>>
  /\ disp_status = <<82, 101, 97, 100, 121>>
  /\ tx_link = <<>>
  /\ lines = <<>>
  /\ rx_log = <<>>
  /\ empty_at = {}
  /\ overrun = 0
  /\ wr_max = 0
  /\ pass = PassStart(0)
  /\ owed = {}
  /\ wire = <<>>
  /\ pin = PinSet
  /\ budget = [short |-> 0, long |-> 0, adc |-> 0]

ClassifySpec == InitClassify /\ [][L221]_vars

InBand(v, c, dz) == v <= c + dz /\ v >= c - dz

\* C10: the direction computed from (x, y) is Right iff x > mid_x + deadzone;
\* Left iff not that and x < mid_x - deadzone; Up iff x is in its band and
\* y > mid_y + deadzone; Down iff x is in its band and y < mid_y - deadzone;
\* Neutral iff both are in their bands.
C10_FirstMatch ==
  pc = "L233" =>
    /\ dir \in {DirR, DirL, DirU, DirD, DirN}
    /\ dir = DirR <=> x > mid_x + deadzone
    /\ dir = DirL <=> (x < mid_x - deadzone /\ ~(x > mid_x + deadzone))
    /\ dir = DirU <=> (InBand(x, mid_x, deadzone) /\ y > mid_y + deadzone)
    /\ dir = DirD <=> (InBand(x, mid_x, deadzone) /\ y < mid_y - deadzone
                        /\ ~(y > mid_y + deadzone))
    /\ dir = DirN <=> (InBand(x, mid_x, deadzone) /\ InBand(y, mid_y, deadzone))

C10_Witness ==
  /\ pc = "L233"
  /\ dir = DirR
  /\ x > mid_x + deadzone
  /\ y > mid_y + deadzone

\* ----------------------------------------------------- joystick frames
\* The frames the pass in progress has put on the link so far.
SentThisPass == SubSeq(tx_link, pass.mark + 1, Len(tx_link))
IsDirFrame(f) == f.kind = "dir"
IsButtonFrame(f) == f.kind = "button"
DirFrame(d) == [kind |-> "dir", bytes |-> <<d, CR, LF>>]
ButtonFrame == [kind |-> "button", bytes |-> <<ChB, CR, LF>>]

\* C11: at the end of every pass that found joystick_flag set, the pass has
\* sent exactly one frame {dir, '\r', '\n'} if the classified direction is
\* not Neutral and none if it is, and exactly one frame {'B', '\r', '\n'} if
\* the button reads pressed and none if not, whatever the direction; a pass
\* that did not find the flag set has sent neither.  An earlier pass that
\* sent the same frames changes nothing.
C11_LevelTriggered ==
  pc = "L246" =>
    /\ SelectSeq(SentThisPass, IsDirFrame) =
         (IF pass.joy /\ dir # DirN THEN <<DirFrame(dir)>> ELSE <<>>)
    /\ SelectSeq(SentThisPass, IsButtonFrame) =
         (IF pass.joy /\ state = PinReset THEN <<ButtonFrame>> ELSE <<>>)

\* A pass sends a direction frame and a button frame, and an earlier pass
\* has already sent the same direction.
C11_Witness ==
  /\ pc = "L246"
  /\ pass.joy
  /\ dir # DirN
  /\ state = PinReset
  /\ SentThisPass = <<DirFrame(dir), ButtonFrame>>
  /\ \E i \in 1..pass.mark : tx_link[i] = DirFrame(dir)

\* ------------------------------------------- interrupt and main contexts
\* The step is a run of an interrupt handler: a byte was received, or an
\* ADC conversion completed.
IsrStep == Fed \/ budget'.adc # budget.adc

\* C12: food_count, energy_level and the status text are written only by
\* steps of the main loop: a run of an interrupt handler leaves them as they
\* were.
C12_AppOnlyInMain ==
  [][IsrStep => UNCHANGED <<food_count, energy_level, status_msg>>]_vars

\* C13: while command_ready is set, that is from the publication of a
\* snapshot until the main loop has consumed it and cleared the flag, a run
\* of the receive handler leaves echo_buffer and command_length as they were.
C13_SnapshotStable ==
  [][(Fed /\ command_ready # 0) => UNCHANGED <<echo_buffer, command_length>>]_vars

\* The number of elements of seq that satisfy Test.
Count(seq, Test(_)) == Len(SelectSeq(seq, Test))
IsEcho(f) == f.kind = "echo"

\* C14: every completed line with a known tag is handed to the command
\* service once and no more: the services never outnumber such lines, and
\* when the main loop is about to poll with command_ready clear, the
\* services run so far are as many as the lines completed so far.
C14_OncePerLine ==
  /\ Count(tx_link, IsEcho) <= Count(lines, Recognized)
  /\ (pc = "L177" /\ command_ready = 0) =>
       Count(tx_link, IsEcho) = Count(lines, Recognized)

\* ------------------------------------------------------ the line buffer
\* C15: the cursor rx_index never exceeds sizeof(rx_buffer) - 1, between
\* runs of the handler and inside them (the handler's stores, at the cursor
\* and at the cursor after its increment, all fall inside rx_buffer), and
\* the cursor is 0 right after any line is completed.
C15_CursorInBounds ==
  /\ [](rx_index <= RxSize - 1 /\ wr_max <= RxSize - 1)
  /\ [][Completed => rx_index' = 0]_vars

\* A full buffer has forced a line out: the terminator was stored in the
\* last cell and the cursor is back at 0.
C15_Witness ==
  /\ wr_max = RxSize - 1
  /\ rx_index = 0
  /\ \E k \in 1..Len(lines) : Len(lines[k]) = RxSize - 1

RECURSIVE Flatten(_)
Flatten(ss) == IF ss = <<>> THEN <<>> ELSE Head(ss) \o Flatten(Tail(ss))

\* C18: no received byte is dropped or duplicated: the completed lines one
\* after the other, followed by the first rx_index bytes of rx_buffer, are
\* the bytes received so far.
C18_NoByteDropped ==
  Flatten(lines) \o [i \in 1..rx_index |-> rx_buffer[i - 1]] = rx_log

\* Two lines are complete and the next one is partly received.
C18_Witness ==
  /\ Len(lines) >= 2
  /\ rx_index >= 1

\* ------------------------------------------------- the order of a pass
\* The places of the main loop in program order.
Order ==
  << "L177", "L179", "L179tx", "L183", "L188", "L193", "L194",
     "L197", "L200", "L202", "L205", "L207", "L209",
     "L211", "L212", "L213", "L215", "L221", "L233", "L236", "L240", "L243",
     "L246" >>
Pos(l) == CHOOSE i \in 1..Len(Order) : Order[i] = l

\* A pass runs forward through command, alert, blink and joystick, the delay
\* comes last, and a block is entered only when its flag is set.
PassOrder ==
  /\ pc' # pc => (Pos(pc') > Pos(pc) \/ (pc = "L246" /\ pc' = "L177"))
  /\ pc' = "L179" => command_ready # 0
  /\ pc' = "L200" => buzz_flag # 0
  /\ pc' = "L207" => led_blink_flag # 0
  /\ pc' = "L212" => joystick_flag # 0

\* command_ready, buzz_flag and led_blink_flag go to 0 only in the last step
\* of their blocks.
ClearsAfterBlock ==
  /\ (command_ready # 0 /\ command_ready' = 0) => (pc = "L194" /\ pc' = "L197")
  /\ (buzz_flag # 0 /\ buzz_flag' = 0) => (pc = "L202" /\ pc' = "L205")
  /\ (led_blink_flag # 0 /\ led_blink_flag' = 0) => (pc = "L209" /\ pc' = "L211")

\* C16 as stated: within a pass the flags are tested and serviced in the
\* order command_ready, buzz_flag, led_blink_flag, joystick_flag, each flag
\* goes to 0 only once its block has run to its end, and the delay follows.
C16_ClearAfterHandler ==
  [][/\ PassOrder
     /\ ClearsAfterBlock
     /\ (joystick_flag # 0 /\ joystick_flag' = 0) => pc' = "L246"]_vars

\* C16, amended: as stated for command_ready, buzz_flag and led_blink_flag;
\* joystick_flag goes to 0 as soon as the sample has been read (line 216),
\* before the direction is classified and the frames are sent.
C16_FixedOrder ==
  [][/\ PassOrder
     /\ ClearsAfterBlock
     /\ (joystick_flag # 0 /\ joystick_flag' = 0) =>
          (pc = "L215" /\ pc' = "L221")]_vars

\* A pass has serviced a command, nothing is owed for the line with tag F
\* that raised buzz_flag and led_blink_flag, and the joystick sample has
\* just been read: all four flags are 0 and the frames are still to send.
C16_Witness ==
  /\ pc = "L221"
  /\ Count(SentThisPass, IsEcho) = 1
  /\ \E k \in 1..Len(lines) : HasTag(lines[k], ChF)
  /\ owed = {}
  /\ command_ready = 0 /\ buzz_flag = 0 /\ led_blink_flag = 0
  /\ joystick_flag = 0

\* ------------------------------------------- flags raised in a transmit
\* The step enters the block that services flag f.
ServiceStarts(f) ==
  \/ f = "cmd" /\ pc = "L177" /\ pc' = "L179"
  \/ f = "buzz" /\ pc = "L197" /\ pc' = "L200"
  \/ f = "led" /\ pc = "L205" /\ pc' = "L207"
  \/ f = "joy" /\ pc = "L211" /\ pc' = "L212"

FlagNames == {"cmd", "buzz", "led", "joy"}

\* C17 as stated: a flag an interrupt raised while the pass was inside a
\* blocking transmit, the echo or a direction or button frame, is not
\* serviced in that pass.
C17_NotInSamePass ==
  [][\A f \in FlagNames :
       ServiceStarts(f) =>
         (<<f, "echo">> \notin pass.during /\ <<f, "frame">> \notin pass.during)]_vars

\* C17, amended: a flag an interrupt raised while the pass was inside the
\* blocking transmit of a direction or button frame is not serviced in that
\* pass.
C17_NotAfterFrame ==
  [][\A f \in FlagNames :
       ServiceStarts(f) => <<f, "frame">> \notin pass.during]_vars

\* A line completed while the pass was sending a frame; the pass has come to
\* its delay and the flags are still pending.
C17_Witness ==
  /\ pc = "L246"
  /\ {<<"cmd", "frame">>, <<"buzz", "frame">>, <<"led", "frame">>} \subseteq pass.during
  /\ command_ready # 0 /\ buzz_flag # 0 /\ led_blink_flag # 0

\* ------------------------------------------------------- nothing is lost
\* No byte is on its way or still to be sent by the host, and the main loop
\* is at its poll with no refresh requested: no refresh will run any more.
Quiescent ==
  /\ wire = <<>>
  /\ budget.short = 0
  /\ budget.long = 0
  /\ pc = "L177"
  /\ command_ready = 0

\* C19: once a line with a known tag has been completed and the input has
\* gone quiet, the display shows the food count, the energy level and the
\* status text the variables hold; a line completed while a refresh was in
\* progress is not lost.
C19_DisplayCaughtUp ==
  (Quiescent /\ \E k \in 1..Len(lines) : Recognized(lines[k])) =>
    /\ disp_food = Itoa(food_count)
    /\ disp_energy = Itoa(energy_level)
    /\ disp_status = StatusText(status_msg, past_status)

\* C20: no alert and no acknowledgement is lost: an alert owed to a
\* completed line with tag F or S, or a blink owed to a completed line, is
\* still requested by its flag until it begins; the clear that follows the
\* 300 ms delay does not wipe a flag raised during the delay.
C20_NothingOwedUnflagged ==
  /\ "buzz" \in owed => buzz_flag # 0
  /\ "led" \in owed => led_blink_flag # 0

====
